---- MODULE Spec2Model ----
(***************************************************************************)
(* Model of the SPM analytics scripts src/app.py and src/streamlit_app.py.  *)
(* Each script is one synchronous run over an uploaded telemetry table and  *)
(* optional signal / coordinate-master tables.  A run is modelled as the    *)
(* sequence of its blocks (load, reference mapping, KPIs, tabs, report);    *)
(* pc is the block the script is about to execute.                          *)
(*                                                                         *)
(* Units.  Timestamps are whole seconds.  Latitude / longitude are whole    *)
(* thousandths of a degree.  distFromPrevLatLng is whole metres, and        *)
(* Distance_km / cum_dist_km hold the code's value times 1000 (the code     *)
(* divides the running sum by 1000; the model keeps the numerator).         *)
(* Haversine distances are whole millimetres.  A mean is kept exactly as    *)
(* the pair [num, den].                                                     *)
(***************************************************************************)
EXTENDS Integers, Sequences, FiniteSets, TLC

VARIABLES
    inp,            \* uploaded files and widget values of the run
    pc,             \* the block the script executes next
    loco_df,        \* loco_df (app.py) / df (streamlit_app.py)
    signals_mapped, \* signals_mapped (app.py) / mapped_sigs (streamlit_app.py)
    st_msgs,        \* st.success / st.error diagnostics of the reference block
    stats,          \* <<>> until the KPIs are computed, then <<record>>
    sect_stats,     \* section summary intervals (app.py tab1)
    valid_stops,    \* retained stoppage intervals
    dashboard,      \* <<>> until st.dataframe(valid_stops) ran, then <<list>>
    results,        \* signal passes (app.py tab3)
    violations,     \* violations (app.py tab3) / violations_df (streamlit_app.py)
    report          \* <<>> until the report is assembled, then <<record>>

vars == <<inp, pc, loco_df, signals_mapped, st_msgs, stats, sect_stats,
          valid_stops, dashboard, results, violations, report>>

----------------------------------------------------------------------------
(* Bounds of the model *)

MaxRows == 3        \* telemetry rows of a run
MaxRefRows == 2     \* rows of the signal list / of the coordinate master

----------------------------------------------------------------------------
(* Generic helpers (pandas primitives) *)

NaN == "NaN"        \* a missing cell (pandas NaN); read_csv yields it for an empty cell

Range(s) == {s[i] : i \in DOMAIN s}

RECURSIVE SeqSum(_)
SeqSum(s) == IF s = <<>> THEN 0 ELSE s[1] + SeqSum(Tail(s))

SetMin(S) == CHOOSE x \in S : \A y \in S : x <= y
SetMax(S) == CHOOSE x \in S : \A y \in S : x >= y

\* Series.mean(): the exact quotient num / den
Mean(s) == [num |-> SeqSum(s), den |-> Len(s)]

\* the elements of a set of integers in ascending order
RECURSIVE SortedSeq(_)
SortedSeq(S) == IF S = {} THEN <<>>
                ELSE LET m == SetMin(S) IN <<m>> \o SortedSeq(S \ {m})

\* the elements of s whose flag in keep is TRUE, in order (boolean-mask row
\* selection)
RECURSIVE Mask(_, _)
Mask(s, keep) == IF s = <<>> THEN <<>>
                 ELSE (IF keep[1] THEN <<s[1]>> ELSE <<>>)
                      \o Mask(Tail(s), Tail(keep))

Perms(n) == {p \in [1..n -> 1..n] : \A i, j \in 1..n : p[i] = p[j] => i = j}

\* DataFrame.sort_values(key): every arrangement ordered by key.  The default
\* sort kind is quicksort, which does not fix the order of rows with equal keys.
SortOrders(keys, ascending) ==
    {p \in Perms(Len(keys)) :
        \A i, j \in 1..Len(keys) :
            i < j => IF ascending THEN keys[p[i]] <= keys[p[j]]
                                  ELSE keys[p[i]] >= keys[p[j]]}

Permute(s, p) == [i \in 1..Len(s) |-> s[p[i]]]

\* Series.cumsum()
cumsum(s) == [i \in 1..Len(s) |-> SeqSum(SubSeq(s, 1, i))]

\* != on cells that may be missing: NaN is unequal to everything, itself included
PdNe(a, b) == a = NaN \/ b = NaN \/ a # b

\* != on booleans
BoolNe(a, b) == a # b

\* key != key.shift() on a column that may hold missing cells.  The first row
\* is compared with the NaN that shift() puts before it.
ShiftNe(keys) == [i \in 1..Len(keys) |-> i = 1 \/ PdNe(keys[i], keys[i - 1])]

\* key != key.shift() on a boolean column
BoolShiftNe(keys) == [i \in 1..Len(keys) |-> i = 1 \/ BoolNe(keys[i], keys[i - 1])]

\* (...).cumsum() of a boolean column: the group counter
GroupCounter(changed) ==
    [i \in 1..Len(changed) |-> Cardinality({k \in 1..i : changed[k]})]

----------------------------------------------------------------------------
(* Inputs of a run *)

Apps == {"app", "streamlit_app"}

\* st.selectbox("Train Type", ...)
TrainTypes == {"Coaching", "Vande Bharat", "Freight"}

\* the columns of the reference tables that the scripts read by name
RefColumns == {"OHE FROM", "SIGNAL NAME", "OHEMas", "Latitude", "Longitude"}

\* a telemetry row as read_csv returns it; index is the row label (RangeIndex)
Row(i, r) ==
    [index |-> i - 1, t |-> r.t, Speed |-> r.Speed, dist |-> r.dist,
     station |-> r.station, Latitude |-> r.pos[1], Longitude |-> r.pos[2]]

\* every telemetry table of n rows whose cells come from the given sets
Tables(n, T, S, D, ST, P) ==
    {[i \in 1..n |-> Row(i, f[i])] :
        f \in [1..n -> [t : T, Speed : S, dist : D, station : ST, pos : P]]}

TablesUpTo(m, T, S, D, ST, P) == UNION {Tables(n, T, S, D, ST, P) : n \in 1..m}

\* a telemetry table whose first row is at second 0 and whose row i+1 follows
\* row i after gaps[i] seconds, with the given speeds
GapTable(speeds, gaps) ==
    [i \in 1..Len(speeds) |->
        Row(i, [t |-> SeqSum(SubSeq(gaps, 1, i - 1)), Speed |-> speeds[i],
                dist |-> 0, station |-> "A", pos |-> <<21000, 79000>>])]

\* a telemetry table with one row per minute and the given speeds
MinuteTable(speeds) == GapTable(speeds, [i \in 1..(Len(speeds) - 1) |-> 60])

\* every table of up to m rows, one row per minute, cells from the given sets
MinuteTablesUpTo(m, S, P) ==
    UNION {{[i \in 1..n |->
                Row(i, [t |-> 60 * (i - 1), Speed |-> f[i].Speed, dist |-> 10,
                        station |-> "A", pos |-> f[i].pos])] :
             f \in [1..n -> [Speed : S, pos : P]]} : n \in 1..m}

\* positions (thousandths of a degree) used for telemetry points and signals
Base      == <<21000, 79000>>
East3     == <<21000, 79003>>
North1    == <<21001, 79000>>
North2    == <<21002, 79000>>
East11    == <<21000, 79011>>
Positions == {Base, East3, North1, North2, East11}

\* raw identifier cells of the reference tables: a tuple of characters; the
\* empty tuple is an empty cell, which read_csv returns as NaN
IdA       == <<"A">>
IdAPadded == <<" ", "A", " ">>
IdB       == <<"B">>
IdMissing == <<>>

\* a coordinate cell of the master: <<>> is a missing cell, <<v>> a value
CoordCells(v) == {<<>>, <<v>>}

SigRow(id, name) == [OHE_FROM |-> id, SIGNAL_NAME |-> name]
OheRow(id, lat, lon) == [OHEMas |-> id, Latitude |-> lat, Longitude |-> lon]

SigTables(m, Ids) ==
    UNION {{[i \in 1..n |-> SigRow(f[i], i)] : f \in [1..n -> Ids]} : n \in 1..m}

OheTables(m, Ids) ==
    UNION {[1..n -> {OheRow(id, la, lo) : id \in Ids,
                        la \in CoordCells(Base[1]), lo \in CoordCells(Base[2])}]
           : n \in 1..m}

\* the two-signal reference used by the signal-check runs: S1 at Base, S2 at North2
TwoSignals == <<SigRow(IdA, 1), SigRow(IdB, 2)>>
TwoCoords  == <<OheRow(IdA, <<Base[1]>>, <<Base[2]>>),
                OheRow(IdB, <<North2[1]>>, <<North2[2]>>)>>

Input(app, tt, thr, dur, rows, dcol, scol, ref, sig, ohe, miss) ==
    [app |-> app, train_type |-> tt, stop_thresh |-> thr, stop_dur |-> dur,
     rows |-> rows, hasDistCol |-> dcol, hasStationCol |-> scol,
     refFiles |-> ref, sig_rows |-> sig, ohe_rows |-> ohe, missingCol |-> miss]

\* runs that vary the incremental distances (may be negative: the scripts
\* take the column as it is) and the timestamps
InputsDist(m) ==
    {Input(a, "Coaching", 2, 2, rows, dcol, TRUE, FALSE, <<>>, <<>>, {}) :
        a \in Apps, dcol \in BOOLEAN,
        rows \in TablesUpTo(m, {0, 60}, {50}, {-5, 0, 10}, {"A"}, {Base})}

\* entry point and value of the "Min Stoppage Duration" widget
StopWidgets == {<<"app", 1>>, <<"app", 2>>, <<"streamlit_app", 2>>}

\* runs that vary timestamps, speeds and the minimum stoppage duration (the
\* widget of app.py; streamlit_app.py has none and ignores the value)
InputsStop(m) ==
    {Input(w[1], "Coaching", 2, w[2], rows, TRUE, TRUE, FALSE, <<>>, <<>>, {}) :
        w \in StopWidgets,
        rows \in TablesUpTo(m, {0, 90, 120}, {1, 50}, {10}, {"A"}, {Base})}

\* five-row runs: the stoppage scenario (speeds 50,1,1,1,60, one row per
\* minute) and its neighbours, whose first and last gap may be longer
InputsScenario ==
    {Input(w[1], "Coaching", 2, w[2], GapTable(sp, gp), TRUE, TRUE, FALSE, <<>>, <<>>, {}) :
        w \in StopWidgets,
        sp \in {f \in [1..5 -> {1, 50, 60}] :
                   f[1] # 60 /\ f[2] # 60 /\ f[3] # 60 /\ f[4] # 60 /\ f[5] # 50},
        gp \in {g \in [1..4 -> {60, 120, 180}] : g[2] = 60 /\ g[3] = 60}}

\* runs that vary the station codes, missing ones included
InputsSeg(m) ==
    {Input(a, "Coaching", 2, 2, rows, TRUE, scol, FALSE, <<>>, <<>>, {}) :
        a \in Apps, scol \in BOOLEAN,
        rows \in TablesUpTo(m, {0, 60}, {50}, {10}, {"A", "B", NaN}, {Base})}

\* runs that vary the positions of the telemetry points around two signals
InputsProx(m) ==
    {Input(a, "Coaching", 2, 2, rows, TRUE, TRUE, TRUE, TwoSignals, TwoCoords, {}) :
        a \in Apps,
        rows \in TablesUpTo(m, {0, 60}, {50}, {10}, {"A"}, Positions)}

\* runs that vary the speeds at the signals and the train type
InputsViol(m) ==
    {Input(a, tt, 2, 2, rows, TRUE, TRUE, TRUE, TwoSignals, TwoCoords, {}) :
        a \in Apps, tt \in TrainTypes,
        rows \in MinuteTablesUpTo(m, {40, 41, 60, 61}, {Base, North2})}

\* runs that vary the reference tables and which of their columns are absent
InputsRef(m) ==
    {Input(a, "Coaching", 2, 2, MinuteTable(<<50, 70>>), TRUE, TRUE, TRUE, sig, ohe, miss) :
        a \in Apps, sig \in SigTables(m, {IdA, IdB, IdMissing}),
        ohe \in OheTables(m, {IdA, IdAPadded, IdMissing}),
        miss \in {{}} \cup {{c} : c \in RefColumns}}

Start(I) ==
    /\ inp \in I
    /\ pc = "start"
    /\ loco_df = <<>>
    /\ signals_mapped = <<>>
    /\ st_msgs = <<>>
    /\ stats = <<>>
    /\ sect_stats = <<>>
    /\ valid_stops = <<>>
    /\ dashboard = <<>>
    /\ results = <<>>
    /\ violations = <<>>
    /\ report = <<>>

----------------------------------------------------------------------------
(* Shared computations *)

\* adds (or replaces) columns of a row
WithCols(r, cols) == cols @@ r

\* haversine_vectorized as the code evaluates it, in millimetres, tabulated for
\* the positions of the model (IEEE double evaluation of the code's expression
\*   a = sin(dphi/2)^2 + cos(lat1)*cos(lat2)*sin(dlambda/2)^2,
\*   R * 2 * atan2(sqrt(a), sqrt(1-a)),  R = 6371000,
\* where lat1 and lat2 enter the cosines in DEGREES: phi1 and phi2 are computed
\* and never used).  lat1, lon1 is the telemetry point, lat2, lon2 the signal.
haversine_vectorized(lat1, lon1, lat2, lon2) ==
    LET p == <<lat1, lon1>>
        s == <<lat2, lon2>>
    IN  CASE s = Base   /\ p = Base   -> 0
          [] s = Base   /\ p = East3  -> 182714
          [] s = Base   /\ p = North1 -> 111195
          [] s = Base   /\ p = North2 -> 222390
          [] s = Base   /\ p = East11 -> 669952
          [] s = North2 /\ p = Base   -> 222390
          [] s = North2 /\ p = East3  -> 287999
          [] s = North2 /\ p = North1 -> 111195
          [] s = North2 /\ p = North2 -> 0
          [] s = North2 /\ p = East11 -> 706868

\* Series.between(lo, hi): inclusive on both sides
between(x, lo, hi) == lo <= x /\ x <= hi

\* Series.idxmin(): the position of the first minimum
idxmin(s) == SetMin({i \in DOMAIN s : \A j \in DOMAIN s : s[i] <= s[j]})

\* df['Speed'], df['Logging Time'], df['Latitude'], df['Longitude']
Speeds(df) == [i \in DOMAIN df |-> df[i].Speed]
Times(df) == [i \in DOMAIN df |-> df[i].t]
Latitudes(df) == [i \in DOMAIN df |-> df[i].Latitude]
Longitudes(df) == [i \in DOMAIN df |-> df[i].Longitude]

\* sort_values('Logging Time'): the row orders
TimeOrders(rows) == SortOrders(Times(rows), TRUE)

\* astype(str): a missing cell becomes the string 'nan'
AsStr(cell) == IF cell = <<>> THEN <<"n", "a", "n">> ELSE cell

\* str.strip(): removes the leading and the trailing blanks
RECURSIVE LStrip(_)
LStrip(s) == IF s # <<>> /\ s[1] = " " THEN LStrip(Tail(s)) ELSE s

RECURSIVE RStrip(_)
RStrip(s) == IF s # <<>> /\ s[Len(s)] = " "
             THEN RStrip(SubSeq(s, 1, Len(s) - 1)) ELSE s

Strip(s) == RStrip(LStrip(s))

\* .astype(str).str.strip() on an identifier cell
CleanId(cell) == Strip(AsStr(cell))

\* sig_df.merge(ohe_df[['OHEMas','Latitude','Longitude']], left_on='OHE FROM',
\*              right_on='OHEMas', how='left'): one row per matching master row,
\* in the order of the signal rows; a signal row without a match is kept once
\* with missing OHEMas, Latitude and Longitude
MergeRow(sg, key, o) ==
    [OHE_FROM |-> key, SIGNAL_NAME |-> sg.SIGNAL_NAME, sig_index |-> sg.sig_index,
     OHEMas |-> o.OHEMas, Latitude |-> o.Latitude, Longitude |-> o.Longitude]

RECURSIVE MergeLeft(_, _)
MergeLeft(sig, ohe) ==
    IF sig = <<>> THEN <<>>
    ELSE LET key == sig[1].OHE_FROM
             hit == Mask(ohe, [i \in DOMAIN ohe |-> ohe[i].OHEMas = key])
             out == IF hit = <<>>
                    THEN <<MergeRow(sig[1], key, OheRow(<<>>, <<>>, <<>>))>>
                    ELSE [i \in DOMAIN hit |-> MergeRow(sig[1], key, hit[i])]
         IN  out \o MergeLeft(Tail(sig), ohe)

\* the cleaned tables: identifiers as stripped strings; sig_index is the row
\* label of the signal list
CleanSig(sig) ==
    [i \in DOMAIN sig |->
        [OHE_FROM |-> CleanId(sig[i].OHE_FROM), SIGNAL_NAME |-> sig[i].SIGNAL_NAME,
         sig_index |-> i - 1]]

CleanOhe(ohe) ==
    [i \in DOMAIN ohe |->
        OheRow(CleanId(ohe[i].OHEMas), ohe[i].Latitude, ohe[i].Longitude)]

\* dropna(subset=cols): the rows with a value in every listed column
dropna(df, needLat, needLon) ==
    Mask(df, [i \in DOMAIN df |->
                /\ (needLat => df[i].Latitude # <<>>)
                /\ (needLon => df[i].Longitude # <<>>)])

\* the columns the mapping block reads by name before and during the merge; a
\* missing one raises KeyError
MappingColumns == {"OHEMas", "OHE FROM", "Latitude", "Longitude"}

MappingRaises == inp.missingCol \cap MappingColumns # {}

\* the is_stopped column and the group counter over it (stop_grp in app.py,
\* grp in streamlit_app.py) for a threshold
WithStopCols(df, thresh) ==
    LET stopped == [i \in DOMAIN df |-> df[i].Speed < thresh]
        grp == GroupCounter(BoolShiftNe(stopped))
    IN  [i \in DOMAIN df |->
            WithCols(df[i], [is_stopped |-> stopped[i], stop_grp |-> grp[i]])]

\* df[df['is_stopped']].groupby(grp): the rows of each stopped group, groups in
\* ascending order of the group counter
StoppedRows(df) == Mask(df, [i \in DOMAIN df |-> df[i].is_stopped])

GroupRows(df, g) == Mask(df, [i \in DOMAIN df |-> df[i].stop_grp = g])

StopGroups(df) == SortedSeq({df[i].stop_grp : i \in {j \in DOMAIN df : df[j].is_stopped}})

\* StopInterval with the duration taken as one minute per row of the group
StopInterval_countsRows(df, g) ==
    LET rows == GroupRows(StoppedRows(df), g)
        first == SetMin(Range(Times(rows)))
        last == SetMax(Range(Times(rows)))
    IN  [stop_grp |-> g, StartTime |-> first, EndTime |-> last,
         Lat |-> Mean(Latitudes(rows)), Lon |-> Mean(Longitudes(rows)),
         Duration_min |-> 60 * Len(rows)]

\* .agg(min, max, mean, mean) of one stopped group, then Duration_min (the model
\* keeps the seconds: 60 times the code's value)
StopInterval(df, g) ==
    LET rows == GroupRows(StoppedRows(df), g)
        first == SetMin(Range(Times(rows)))
        last == SetMax(Range(Times(rows)))
    IN  [stop_grp |-> g, StartTime |-> first, EndTime |-> last,
         Lat |-> Mean(Latitudes(rows)), Lon |-> Mean(Longitudes(rows)),
         Duration_min |-> last - first]

Stops(df) == LET gs == StopGroups(df) IN [k \in DOMAIN gs |-> StopInterval(df, gs[k])]

\* Retained with a strict comparison
Retained_strict(stops, min_dur) ==
    Mask(stops, [k \in DOMAIN stops |-> stops[k].Duration_min > 60 * min_dur])

\* stops[stops['Duration_min'] >= min_dur]: the comparison is inclusive
Retained(stops, min_dur) ==
    Mask(stops, [k \in DOMAIN stops |-> stops[k].Duration_min >= 60 * min_dur])

\* stops['Duration_min']
Durations(stops) == [k \in DOMAIN stops |-> stops[k].Duration_min]

----------------------------------------------------------------------------
(* src/app.py *)

\* fixed proximity radius of the signal check, in metres
ProximityRadius == 200
\* half-width of the bounding-box pre-filter, in thousandths of a degree (0.01)
BoxHalfWidth == 10
\* speed limits of the violation check
CoachingLimit == 60
OtherLimit == 40
\* the synthetic stride of the fallback distance, thousandths of a km per row (0.01 km)
FallbackStride == 10

\* Distance_km: the running sum of the incremental distances when the column is
\* present, else np.arange(len) * 0.01
Distance_km(df, hasDistCol) ==
    IF hasDistCol THEN cumsum([i \in DOMAIN df |-> df[i].dist])
    ELSE [i \in DOMAIN df |-> (i - 1) * FallbackStride]

A_LoadLoco ==
    /\ inp.app = "app"
    /\ pc = "start"
    /\ \E p \in TimeOrders(inp.rows) :
          LET df == Permute(inp.rows, p)
              km == Distance_km(df, inp.hasDistCol)
          IN  loco_df' = [i \in DOMAIN df |-> WithCols(df[i], [Distance_km |-> km[i]])]
    /\ pc' = "reference"
    /\ UNCHANGED <<inp, signals_mapped, st_msgs, stats, sect_stats, valid_stops,
                   dashboard, results, violations, report>>

\* the body of the try block: merge the cleaned tables, drop the rows without
\* Latitude or Longitude
A_MapSignals(sig, ohe) == dropna(MergeLeft(CleanSig(sig), CleanOhe(ohe)), TRUE, TRUE)

A_ProcessReference ==
    /\ inp.app = "app"
    /\ pc = "reference"
    /\ IF ~inp.refFiles
       THEN UNCHANGED <<signals_mapped, st_msgs>>
       ELSE IF MappingRaises
            THEN /\ st_msgs' = Append(st_msgs, [kind |-> "error", n |-> 0])
                 /\ UNCHANGED signals_mapped
            ELSE LET mapped == A_MapSignals(inp.sig_rows, inp.ohe_rows)
                 IN  /\ signals_mapped' = mapped
                     /\ st_msgs' = Append(st_msgs, [kind |-> "success", n |-> Len(mapped)])
    /\ pc' = "kpi"
    /\ UNCHANGED <<inp, loco_df, stats, sect_stats, valid_stops, dashboard,
                   results, violations, report>>

\* total_dist, avg_spd, max_spd, duration (the model keeps the seconds)
A_Stats(df) ==
    [total_dist |-> SetMax(Range([i \in DOMAIN df |-> df[i].Distance_km])),
     avg_spd |-> Mean(Speeds(df)),
     max_spd |-> SetMax(Range(Speeds(df))),
     duration |-> SetMax(Range(Times(df))) - SetMin(Range(Times(df)))]

A_KPIs ==
    /\ inp.app = "app"
    /\ pc = "kpi"
    /\ stats' = <<A_Stats(loco_df)>>
    /\ pc' = "tab1"
    /\ UNCHANGED <<inp, loco_df, signals_mapped, st_msgs, sect_stats, valid_stops,
                   dashboard, results, violations, report>>

\* section_grp: the group counter over the station codes, compared with pandas !=
section_grp(df) == GroupCounter(ShiftNe([i \in DOMAIN df |-> df[i].station]))

\* groupby(['section_grp', 'last/cur stationCode']): the group keys, ascending.
\* groupby drops the rows whose key holds a missing value (dropna=True).
SectionKeys(df) ==
    SortedSeq({df[i].section_grp : i \in {j \in DOMAIN df : df[j].station # NaN}})

\* the rows of one group
SectionRows(df, g) ==
    Mask(df, [i \in DOMAIN df |-> df[i].section_grp = g /\ df[i].station # NaN])

SectionInterval(df, g) ==
    LET rows == SectionRows(df, g)
    IN  [section_grp |-> g, station |-> rows[1].station,
         Start |-> SetMin(Range(Times(rows))),
         End |-> SetMax(Range(Times(rows))),
         Avg_Speed |-> Mean(Speeds(rows)),
         Max_Speed |-> SetMax(Range(Speeds(rows)))]

A_SectionSummary ==
    /\ inp.app = "app"
    /\ pc = "tab1"
    /\ IF inp.hasStationCol
       THEN LET grp == section_grp(loco_df)
                df == [i \in DOMAIN loco_df |->
                          WithCols(loco_df[i], [section_grp |-> grp[i]])]
                ks == SectionKeys(df)
            IN  /\ loco_df' = df
                /\ sect_stats' = [k \in DOMAIN ks |-> SectionInterval(df, ks[k])]
       ELSE UNCHANGED <<loco_df, sect_stats>>
    /\ pc' = "tab2"
    /\ UNCHANGED <<inp, signals_mapped, st_msgs, stats, valid_stops, dashboard,
                   results, violations, report>>

\* A_SortStops sorting by ascending duration
A_SortStops_ascending(kept) ==
    {Permute(kept, p) : p \in SortOrders(Durations(kept), TRUE)}

\* .sort_values('Duration_min', ascending=False): the possible results
A_SortStops(kept) ==
    {Permute(kept, p) : p \in SortOrders(Durations(kept), FALSE)}

A_StoppageAnalysis ==
    /\ inp.app = "app"
    /\ pc = "tab2"
    /\ LET df == WithStopCols(loco_df, inp.stop_thresh)
           kept == Retained(Stops(df), inp.stop_dur)
       IN  /\ loco_df' = df
           /\ \E sorted \in A_SortStops(kept) :
                 /\ valid_stops' = sorted
                 /\ dashboard' = <<sorted>>
    /\ pc' = "tab3"
    /\ UNCHANGED <<inp, signals_mapped, st_msgs, stats, sect_stats, results,
                   violations, report>>

\* the candidates of one signal: the rows inside the bounding box
Nearby(df, sig) ==
    Mask(df, [i \in DOMAIN df |->
        /\ between(df[i].Latitude, sig.Latitude[1] - BoxHalfWidth,
                   sig.Latitude[1] + BoxHalfWidth)
        /\ between(df[i].Longitude, sig.Longitude[1] - BoxHalfWidth,
                   sig.Longitude[1] + BoxHalfWidth)])

\* nearby['dist']
NearbyDist(nearby, sig) ==
    [i \in DOMAIN nearby |->
        haversine_vectorized(nearby[i].Latitude, nearby[i].Longitude,
                             sig.Latitude[1], sig.Longitude[1])]

\* closest['dist'] < 200
WithinRadius(d) == d < ProximityRadius * 1000

\* the result rows one signal contributes: none or one
SignalPass(df, sig) ==
    LET nearby == Nearby(df, sig)
    IN  IF nearby = <<>> THEN <<>>
        ELSE LET dist == NearbyDist(nearby, sig)
                 k == idxmin(dist)
             IN  IF WithinRadius(dist[k])
                 THEN <<[Signal |-> sig.SIGNAL_NAME, sig_index |-> sig.sig_index,
                         Pass_Time |-> nearby[k].t, Speed |-> nearby[k].Speed,
                         Distance_to_Signal |-> dist[k], index |-> nearby[k].index]>>
                 ELSE <<>>

RECURSIVE SignalPasses(_, _)
SignalPasses(df, sigs) ==
    IF sigs = <<>> THEN <<>>
    ELSE SignalPass(df, sigs[1]) \o SignalPasses(df, Tail(sigs))

\* limit = 60 if train_type == "Coaching" else 40
SpeedLimit(train_type) == IF train_type = "Coaching" THEN CoachingLimit ELSE OtherLimit

\* Violations with an inclusive comparison
Violations_inclusive(res, limit) == Mask(res, [i \in DOMAIN res |-> res[i].Speed >= limit])

\* sig_res_df[sig_res_df['Speed'] > limit]
Violations(res, limit) == Mask(res, [i \in DOMAIN res |-> res[i].Speed > limit])

A_SignalCheck ==
    /\ inp.app = "app"
    /\ pc = "tab3"
    /\ LET res == SignalPasses(loco_df, signals_mapped)
       IN  IF res # <<>> /\ "SIGNAL NAME" \in inp.missingCol
           THEN \* sig['SIGNAL NAME'] raises KeyError: the script stops here
                /\ pc' = "aborted"
                /\ UNCHANGED <<results, violations>>
           ELSE /\ results' = res
                /\ violations' = Violations(res, SpeedLimit(inp.train_type))
                /\ pc' = "tab4"
    /\ UNCHANGED <<inp, loco_df, signals_mapped, st_msgs, stats, sect_stats,
                   valid_stops, dashboard, report>>

A_Report ==
    /\ inp.app = "app"
    /\ pc = "tab4"
    /\ report' = <<[train_type |-> inp.train_type, stats |-> stats[1],
                    stoppages |-> valid_stops]>>
    /\ pc' = "done"
    /\ UNCHANGED <<inp, loco_df, signals_mapped, st_msgs, stats, sect_stats,
                   valid_stops, dashboard, results, violations>>

----------------------------------------------------------------------------
(* src/streamlit_app.py *)

\* stop_thresh = 2.0 and min_dur_min = 2.0 are fixed in this script
S_stop_thresh == 2
S_min_dur_min == 2

\* cum_dist_km: a missing incremental-distance column is filled with 0 first
cum_dist_km(df, hasDistCol) ==
    cumsum([i \in DOMAIN df |-> IF hasDistCol THEN df[i].dist ELSE 0])

S_LoadLoco ==
    /\ inp.app = "streamlit_app"
    /\ pc = "start"
    /\ \E p \in TimeOrders(inp.rows) :
          LET df == Permute(inp.rows, p)
              km == cum_dist_km(df, inp.hasDistCol)
          IN  loco_df' = [i \in DOMAIN df |-> WithCols(df[i], [cum_dist_km |-> km[i]])]
    /\ pc' = "stoppages"
    /\ UNCHANGED <<inp, signals_mapped, st_msgs, stats, sect_stats, valid_stops,
                   dashboard, results, violations, report>>

\* valid_stops[['Start', 'End', 'Duration_min', 'Location']]: Location is the
\* formatted pair of the mean coordinates.  (For an empty valid_stops the
\* Location column is taken to be empty; what DataFrame.apply returns for an
\* empty frame depends on the pandas version and is not modelled.)
S_StopRow(s) ==
    [stop_grp |-> s.stop_grp, Start |-> s.StartTime, End |-> s.EndTime,
     Duration_min |-> s.Duration_min, Location |-> <<s.Lat, s.Lon>>]

\* .sort_values('Start'): the possible results
S_SortStops(rows) == {Permute(rows, p) : p \in SortOrders([k \in DOMAIN rows |-> rows[k].Start], TRUE)}

S_Stoppages ==
    /\ inp.app = "streamlit_app"
    /\ pc = "stoppages"
    /\ LET df == WithStopCols(loco_df, S_stop_thresh)
           kept == Retained(Stops(df), S_min_dur_min)
           rows == [k \in DOMAIN kept |-> S_StopRow(kept[k])]
       IN  /\ loco_df' = df
           /\ \E sorted \in S_SortStops(rows) : valid_stops' = sorted
    /\ pc' = "signals"
    /\ UNCHANGED <<inp, signals_mapped, st_msgs, stats, sect_stats, dashboard,
                   results, violations, report>>

\* mapped_sigs = merged.dropna(subset=['Latitude'])
S_MapSignals(sig, ohe) == dropna(MergeLeft(CleanSig(sig), CleanOhe(ohe)), TRUE, FALSE)

\* the signal block has no try / except: a KeyError ends the run
S_Signals ==
    /\ inp.app = "streamlit_app"
    /\ pc = "signals"
    /\ violations' = <<>>
    /\ IF ~inp.refFiles
       THEN pc' = "stats" /\ UNCHANGED signals_mapped
       ELSE IF MappingRaises
            THEN pc' = "aborted" /\ UNCHANGED signals_mapped
            ELSE /\ signals_mapped' = S_MapSignals(inp.sig_rows, inp.ohe_rows)
                 /\ pc' = "stats"
    /\ UNCHANGED <<inp, loco_df, st_msgs, stats, sect_stats, valid_stops,
                   dashboard, results, report>>

S_StatsOf(df) ==
    [dist |-> SetMax(Range([i \in DOMAIN df |-> df[i].cum_dist_km])),
     duration |-> SetMax(Range(Times(df))) - SetMin(Range(Times(df))),
     avg_speed |-> Mean(Speeds(df)),
     max_speed |-> SetMax(Range(Speeds(df)))]

S_Stats ==
    /\ inp.app = "streamlit_app"
    /\ pc = "stats"
    /\ stats' = <<S_StatsOf(loco_df)>>
    /\ pc' = "display"
    /\ UNCHANGED <<inp, loco_df, signals_mapped, st_msgs, sect_stats, valid_stops,
                   dashboard, results, violations, report>>

S_Dashboard ==
    /\ inp.app = "streamlit_app"
    /\ pc = "display"
    /\ dashboard' = <<valid_stops>>
    /\ pc' = "report"
    /\ UNCHANGED <<inp, loco_df, signals_mapped, st_msgs, stats, sect_stats,
                   valid_stops, results, violations, report>>

\* generate_html_report(trip_details, stats, valid_stops, violations_df)
generate_html_report(trip_details, st, stoppages, viol) ==
    [trip_details |-> trip_details, stats |-> st, stoppages |-> stoppages,
     violations |-> viol]

S_Report ==
    /\ inp.app = "streamlit_app"
    /\ pc = "report"
    /\ report' = <<generate_html_report([type |-> inp.train_type,
                                         stop_dur |-> S_min_dur_min],
                                        stats[1], valid_stops, violations)>>
    /\ pc' = "done"
    /\ UNCHANGED <<inp, loco_df, signals_mapped, st_msgs, stats, sect_stats,
                   valid_stops, dashboard, results, violations>>

----------------------------------------------------------------------------
(* Specifications *)

Next ==
    \/ A_LoadLoco
    \/ A_ProcessReference
    \/ A_KPIs
    \/ A_SectionSummary
    \/ A_StoppageAnalysis
    \/ A_SignalCheck
    \/ A_Report
    \/ S_LoadLoco
    \/ S_Stoppages
    \/ S_Signals
    \/ S_Stats
    \/ S_Dashboard
    \/ S_Report

InitDist == Start(InputsDist(MaxRows))
InitStop == Start(InputsStop(MaxRows) \cup InputsScenario)
InitSeg == Start(InputsSeg(MaxRows))
InitProx == Start(InputsProx(MaxRows))
InitViol == Start(InputsViol(MaxRows))
InitRef == Start(InputsRef(MaxRefRows))

Init == Start(InputsStop(MaxRows) \cup InputsSeg(MaxRows) \cup InputsViol(MaxRows))

Spec == Init /\ [][Next]_vars
SpecDist == InitDist /\ [][Next]_vars
SpecStop == InitStop /\ [][Next]_vars
SpecSeg == InitSeg /\ [][Next]_vars
SpecProx == InitProx /\ [][Next]_vars
SpecViol == InitViol /\ [][Next]_vars
SpecRef == InitRef /\ [][Next]_vars

----------------------------------------------------------------------------
(* Vocabulary of the properties *)

\* the telemetry table has been loaded, sorted and given its cumulative distance
Loaded == pc # "start"

\* the stoppage block of the run has been executed
StopsDone ==
    IF inp.app = "app" THEN pc \in {"tab3", "tab4", "done", "aborted"}
    ELSE pc \in {"signals", "stats", "display", "report", "done", "aborted"}

\* the cumulative distance of a trip point, whichever script computed it
CumDist(r) == IF inp.app = "app" THEN r.Distance_km ELSE r.cum_dist_km

\* the stop speed threshold and the minimum duration (minutes) the run uses
StopThreshold == IF inp.app = "app" THEN inp.stop_thresh ELSE S_stop_thresh
MinDuration == IF inp.app = "app" THEN inp.stop_dur ELSE S_min_dur_min

\* start and end of a retained stoppage, whichever script produced it
StopStart(s) == IF inp.app = "app" THEN s.StartTime ELSE s.Start
StopEnd(s) == IF inp.app = "app" THEN s.EndTime ELSE s.End

\* the maximal runs <<a, b>> of consecutive rows of df whose speed is below thr
StoppedRuns(df, thr) ==
    {ab \in (DOMAIN df) \X (DOMAIN df) :
        /\ ab[1] <= ab[2]
        /\ \A i \in ab[1]..ab[2] : df[i].Speed < thr
        /\ (ab[1] > 1 => ~(df[ab[1] - 1].Speed < thr))
        /\ (ab[2] < Len(df) => ~(df[ab[2] + 1].Speed < thr))}

Descending(keys) == \A i, j \in DOMAIN keys : i < j => keys[i] >= keys[j]
Ascending(keys) == \A i, j \in DOMAIN keys : i < j => keys[i] <= keys[j]

\* the durations and the start times of a stoppage list
DurationsOf(stops) == [k \in DOMAIN stops |-> stops[k].Duration_min]
StartsOf(stops) == [k \in DOMAIN stops |-> StopStart(stops[k])]

----------------------------------------------------------------------------
(* C1: after normalization the cumulative distance of the time-ordered trip   *)
(* points never decreases from one point to the next, whatever the            *)
(* incremental distances of the rows are.  The code fails this: a negative    *)
(* increment lowers the running sum.                                           *)
C1_CumulativeDistanceMonotone ==
    Loaded => \A i \in 1..(Len(loco_df) - 1) :
                  CumDist(loco_df[i + 1]) >= CumDist(loco_df[i])

----------------------------------------------------------------------------
\* the run is the stoppage scenario: speeds 50,1,1,1,60, one row per minute,
\* threshold 2 km/h, minimum duration 2 minutes
IsScenario ==
    /\ inp.rows = MinuteTable(<<50, 1, 1, 1, 60>>)
    /\ StopThreshold = 2
    /\ MinDuration = 2

(* C2 as stated: the scenario yields exactly one retained stoppage, of 3      *)
(* minutes.                                                                    *)
C2_ScenarioThreeMinutes ==
    (IsScenario /\ StopsDone) =>
        /\ Len(valid_stops) = 1
        /\ valid_stops[1].Duration_min = 3 * 60

(* C2 amended: the scenario yields exactly one retained stoppage, and its     *)
(* duration is 2 minutes: the last stopped timestamp (minute 3) minus the     *)
(* first (minute 1).                                                           *)
C2_ScenarioTwoMinutes ==
    (IsScenario /\ StopsDone) =>
        /\ Len(valid_stops) = 1
        /\ valid_stops[1].Duration_min = 2 * 60
        /\ StopStart(valid_stops[1]) = 60
        /\ StopEnd(valid_stops[1]) = 180

C2_Witness == IsScenario /\ StopsDone /\ Len(valid_stops) = 1

----------------------------------------------------------------------------
\* the section summary of app.py has been computed from a station-code column
SectionDone ==
    /\ inp.app = "app"
    /\ inp.hasStationCol
    /\ pc \in {"tab2", "tab3", "tab4", "done", "aborted"}

\* the stoppage grouping of app.py has been computed
StopGroupingDone == inp.app = "app" /\ pc \in {"tab3", "tab4", "done", "aborted"}

\* row i of the table is a member of section interval k
InSection(i, k) ==
    \E j \in DOMAIN SectionRows(loco_df, sect_stats[k].section_grp) :
        SectionRows(loco_df, sect_stats[k].section_grp)[j].index = loco_df[i].index

(* C3: segmentation never splits a run.  All records of one section interval  *)
(* share its station code, and two consecutive records with equal keys (two   *)
(* consecutive missing station codes included; likewise equal stopped /       *)
(* moving flags) carry the same group counter.  The code fails this: pandas   *)
(* != holds between two missing values, so every missing station code starts  *)
(* a group of its own.                                                         *)
C3_SegmentationNeverSplits ==
    /\ SectionDone =>
          /\ \A k \in DOMAIN sect_stats : \A i \in DOMAIN loco_df :
                InSection(i, k) => loco_df[i].station = sect_stats[k].station
          /\ \A i \in 1..(Len(loco_df) - 1) :
                loco_df[i].station = loco_df[i + 1].station
                    => loco_df[i].section_grp = loco_df[i + 1].section_grp
    /\ StopGroupingDone =>
          \A i \in 1..(Len(loco_df) - 1) :
                loco_df[i].is_stopped = loco_df[i + 1].is_stopped
                    => loco_df[i].stop_grp = loco_df[i + 1].stop_grp

(* C4: the station-code segmentation is a partition of the input.  Every      *)
(* point belongs to exactly one section interval and the point counts of the  *)
(* intervals sum to the number of input points.  The code fails this: groupby *)
(* drops the rows whose station code is missing.                               *)
C4_SegmentationPartition ==
    SectionDone =>
        /\ \A i \in DOMAIN loco_df :
              Cardinality({k \in DOMAIN sect_stats : InSection(i, k)}) = 1
        /\ SeqSum([k \in DOMAIN sect_stats |->
                      Len(SectionRows(loco_df, sect_stats[k].section_grp))])
              = Len(inp.rows)

----------------------------------------------------------------------------
\* retained stoppage k is the maximal stopped run <<a, b>> of the table
IsRun(k, ab) ==
    /\ valid_stops[k].stop_grp = loco_df[ab[1]].stop_grp
    /\ StopStart(valid_stops[k]) = loco_df[ab[1]].t
    /\ StopEnd(valid_stops[k]) = loco_df[ab[2]].t
    /\ valid_stops[k].Duration_min = loco_df[ab[2]].t - loco_df[ab[1]].t

\* the duration of a run reaches the minimum (seconds against minutes)
LongEnough(ab) == loco_df[ab[2]].t - loco_df[ab[1]].t >= 60 * MinDuration

(* C5: stoppage retention is inclusive.  A maximal stopped run is retained    *)
(* exactly when its duration (last minus first timestamp) is >= the minimum   *)
(* duration, so a run lasting exactly the minimum is retained and a shorter   *)
(* one is not; every retained interval is one such run, listed once, and      *)
(* holds only points whose speed is below the stop threshold.                  *)
C5_RetentionInclusive ==
    StopsDone =>
        LET runs == StoppedRuns(loco_df, StopThreshold)
        IN  /\ \A ab \in runs :
                  (\E k \in DOMAIN valid_stops : IsRun(k, ab)) <=> LongEnough(ab)
            /\ \A k \in DOMAIN valid_stops :
                  /\ \E ab \in runs : IsRun(k, ab)
                  /\ \A i \in DOMAIN loco_df :
                        loco_df[i].stop_grp = valid_stops[k].stop_grp
                            => loco_df[i].Speed < StopThreshold
            /\ Len(valid_stops) = Cardinality({ab \in runs : LongEnough(ab)})

\* a run lasting exactly the minimum is retained while another run is excluded
C5_Witness ==
    /\ StopsDone
    /\ \E k \in DOMAIN valid_stops : valid_stops[k].Duration_min = 60 * MinDuration
    /\ \E ab \in StoppedRuns(loco_df, StopThreshold) : ~LongEnough(ab)

----------------------------------------------------------------------------
\* the signal check of app.py has run to its end
ProxDone == inp.app = "app" /\ pc \in {"tab4", "done"}

\* the great-circle (haversine) distance in millimetres between a telemetry
\* point and a signal, on a sphere of radius 6371000 m with the latitudes
\* converted to radians, tabulated for the positions of the model
GreatCircle(lat1, lon1, lat2, lon2) ==
    LET p == <<lat1, lon1>>
        s == <<lat2, lon2>>
    IN  CASE s = Base   /\ p = Base   -> 0
          [] s = Base   /\ p = East3  -> 311428
          [] s = Base   /\ p = North1 -> 111195
          [] s = Base   /\ p = North2 -> 222390
          [] s = Base   /\ p = East11 -> 1141903
          [] s = North2 /\ p = Base   -> 222390
          [] s = North2 /\ p = East3  -> 382679
          [] s = North2 /\ p = North1 -> 111195
          [] s = North2 /\ p = North2 -> 0
          [] s = North2 /\ p = East11 -> 1163350

\* the telemetry rows inside the +/-0.01 degree box of a mapped signal
Candidates(sig) ==
    {i \in DOMAIN loco_df :
        /\ loco_df[i].Latitude >= sig.Latitude[1] - 10
        /\ loco_df[i].Latitude <= sig.Latitude[1] + 10
        /\ loco_df[i].Longitude >= sig.Longitude[1] - 10
        /\ loco_df[i].Longitude <= sig.Longitude[1] + 10}

GeoDist(i, sig) ==
    GreatCircle(loco_df[i].Latitude, loco_df[i].Longitude,
                sig.Latitude[1], sig.Longitude[1])

\* the result rows of a mapped signal
PassesOf(sig) == {r \in DOMAIN results : results[r].sig_index = sig.sig_index}

(* C6: a mapped signal is excluded from the signal-pass results exactly when  *)
(* no telemetry point lies in its +/-0.01 degree box or the minimum geodesic  *)
(* distance over the candidates exceeds 200 m; otherwise (200 m included) it  *)
(* has exactly one result, whose pass time and speed are those of a candidate *)
(* at the minimum distance.  The code fails this: its distance is not the     *)
(* geodesic distance (the cosines are taken of degrees), and it compares with *)
(* < 200.                                                                      *)
C6_SignalProximity ==
    ProxDone =>
        \A m \in DOMAIN signals_mapped :
            LET sig == signals_mapped[m]
                cand == Candidates(sig)
                least == SetMin({GeoDist(i, sig) : i \in cand})
            IN  IF cand = {} \/ least > 200 * 1000
                THEN PassesOf(sig) = {}
                ELSE /\ Cardinality(PassesOf(sig)) = 1
                     /\ \A r \in PassesOf(sig) :
                           \E i \in cand :
                               /\ GeoDist(i, sig) = least
                               /\ results[r].Pass_Time = loco_df[i].t
                               /\ results[r].Speed = loco_df[i].Speed

----------------------------------------------------------------------------
\* the limit of the violation policy for the train type of the run
PolicyLimit == IF inp.train_type = "Coaching" THEN 60 ELSE 40

(* C7: violation policy.  A visited signal is in the violation set exactly    *)
(* when its recorded speed is strictly greater than the limit, 60 km/h for    *)
(* train type Coaching and 40 km/h for every other train type; a speed equal  *)
(* to the limit is no violation, and the violation set holds visited signals  *)
(* only.                                                                       *)
C7_ViolationPolicy ==
    ProxDone =>
        /\ \A r \in DOMAIN results :
              (\E v \in DOMAIN violations : violations[v] = results[r])
                  <=> results[r].Speed > PolicyLimit
        /\ \A v \in DOMAIN violations :
              \E r \in DOMAIN results : results[r] = violations[v]

\* one signal was passed at exactly the limit and another one above it
C7_Witness ==
    /\ ProxDone
    /\ \E r \in DOMAIN results : results[r].Speed = PolicyLimit
    /\ violations # <<>>

----------------------------------------------------------------------------
\* both reference files were supplied and one of them lacks a column the
\* mapping reads, so the mapping raises
RefFailure == inp.refFiles /\ MappingRaises

(* C8: a failure of the optional signal mapping is contained.  In every       *)
(* entry point the run is not cut short by it: the mapped-signal set stays    *)
(* empty and the run ends with TripStats computed and the stoppage list       *)
(* shown.  streamlit_app.py fails this: its mapping block has no try/except,  *)
(* so the KeyError ends the run before the statistics.                         *)
C8_FailureContained ==
    RefFailure =>
        /\ pc # "aborted"
        /\ signals_mapped = <<>>
        /\ (pc = "done" => stats # <<>> /\ dashboard # <<>>)

----------------------------------------------------------------------------
\* the mapping block has run without raising
MappingDone ==
    /\ inp.refFiles
    /\ ~MappingRaises
    /\ IF inp.app = "app" THEN pc \notin {"start", "reference"}
       ELSE pc \notin {"start", "stoppages", "signals"}

\* signal row i is resolved by master row j: equal trimmed string identifiers,
\* latitude and longitude present
Resolves(i, j) ==
    /\ Strip(AsStr(inp.sig_rows[i].OHE_FROM)) = Strip(AsStr(inp.ohe_rows[j].OHEMas))
    /\ inp.ohe_rows[j].Latitude # <<>>
    /\ inp.ohe_rows[j].Longitude # <<>>

(* C9: the mapping drops unresolved rows.  Every row of the mapped-signal set *)
(* is a signal row joined to a master row with the same trimmed string        *)
(* identifier and with latitude and longitude present; when no signal row is  *)
(* resolved the mapped set is empty, no error is reported and app.py reports  *)
(* a mapped count of 0.  streamlit_app.py fails this: it drops only the rows  *)
(* without latitude, so a row joined to a master row without longitude stays. *)
C9_MappedRowsResolved ==
    MappingDone =>
        /\ \A m \in DOMAIN signals_mapped :
              \E i \in DOMAIN inp.sig_rows, j \in DOMAIN inp.ohe_rows :
                  /\ signals_mapped[m].sig_index = i - 1
                  /\ Resolves(i, j)
                  /\ signals_mapped[m].Latitude = inp.ohe_rows[j].Latitude
                  /\ signals_mapped[m].Longitude = inp.ohe_rows[j].Longitude
        /\ (~\E i \in DOMAIN inp.sig_rows, j \in DOMAIN inp.ohe_rows : Resolves(i, j))
              => /\ signals_mapped = <<>>
                 /\ \A k \in DOMAIN st_msgs : st_msgs[k].kind # "error"
                 /\ (inp.app = "app" => st_msgs = <<[kind |-> "success", n |-> 0]>>)

----------------------------------------------------------------------------
(* C10 as stated: in every entry point the stoppage list shown on the         *)
(* dashboard is sorted by descending duration and the stoppage list placed in *)
(* the report is sorted by ascending start time.                               *)
C10_DisplayDescendingReportAscending ==
    /\ dashboard # <<>> => Descending(DurationsOf(dashboard[1]))
    /\ report # <<>> => Ascending(StartsOf(report[1].stoppages))

(* C10 amended: each entry point shows and reports one and the same list.     *)
(* In app.py the dashboard list and the report list are sorted by descending  *)
(* duration; in streamlit_app.py both are sorted by ascending start time.     *)
C10_OneOrderPerEntryPoint ==
    /\ report # <<>> => dashboard # <<>> /\ report[1].stoppages = dashboard[1]
    /\ dashboard # <<>> =>
          IF inp.app = "app" THEN Descending(DurationsOf(dashboard[1]))
          ELSE Ascending(StartsOf(dashboard[1]))

\* a report whose stoppage list is ordered differently by the two criteria
C10_Witness ==
    /\ report # <<>>
    /\ Len(report[1].stoppages) >= 2
    /\ \/ ~Descending(DurationsOf(report[1].stoppages))
       \/ ~Ascending(StartsOf(report[1].stoppages))

----------------------------------------------------------------------------
\* streamlit_app.py has called generate_html_report with both reference
\* files supplied
ReportAssembled == inp.app = "streamlit_app" /\ inp.refFiles /\ report # <<>>

\* the signal passes of the run: for each mapped signal the closest telemetry
\* point of its box, if within the radius
VisitedSignals == SignalPasses(loco_df, signals_mapped)

(* C11: the report payload carries the detected violations.  Whenever the     *)
(* signal and coordinate-master files are supplied and a visited signal's     *)
(* recorded speed exceeds the limit of the train type, the violations         *)
(* argument handed to generate_html_report is non-empty and holds that signal *)
(* pass.  streamlit_app.py fails this: violations_df is created empty and     *)
(* never filled, so the report always shows the placeholder.                  *)
C11_ReportCarriesViolations ==
    ReportAssembled =>
        \A r \in DOMAIN VisitedSignals :
            VisitedSignals[r].Speed > PolicyLimit =>
                /\ report[1].violations # <<>>
                /\ \E v \in DOMAIN report[1].violations :
                      /\ report[1].violations[v].Signal = VisitedSignals[r].Signal
                      /\ report[1].violations[v].Speed = VisitedSignals[r].Speed

====
